---------------------------- MODULE Spec2Model ----------------------------
(***************************************************************************)
(* Receipt processor (src/app.py): the validator and points engine of      *)
(* POST /receipts/process, the SQLite-backed receipt store, and the        *)
(* lookup GET /receipts/<id>/points, served by gunicorn workers or by the  *)
(* Flask development server.                                               *)
(*                                                                         *)
(* Text is a sequence of one-character strings.  A decimal amount is an    *)
(* exact fraction num/den; on decimals with at most three fraction digits  *)
(* below 200.000 the binary64 operations of the source (floor, fmod of     *)
(* total*100, ceil of price*0.2, the comparison with 10.00) give the same  *)
(* results as the exact ones used here.                                    *)
(***************************************************************************)
EXTENDS Integers, Sequences, FiniteSets, TLC

(***************************************************************************)
(* Characters and Python's text primitives                                 *)
(***************************************************************************)
DigitSeq == <<"0", "1", "2", "3", "4", "5", "6", "7", "8", "9">>
UpperSeq == <<"A", "B", "C", "D", "E", "F", "G", "H", "I", "J", "K", "L", "M",
              "N", "O", "P", "Q", "R", "S", "T", "U", "V", "W", "X", "Y", "Z">>
LowerSeq == <<"a", "b", "c", "d", "e", "f", "g", "h", "i", "j", "k", "l", "m",
              "n", "o", "p", "q", "r", "s", "t", "u", "v", "w", "x", "y", "z">>

Range(f) == {f[i] : i \in DOMAIN f}

Digits == Range(DigitSeq)
Upper == Range(UpperSeq)
Lower == Range(LowerSeq)

\* A lone surrogate code point, as json.loads builds from the escape \ud800.
Surrogate == "uD800"

Whitespace == {" ", "\t", "\n"}

DigitVal(c) == (CHOOSE i \in DOMAIN DigitSeq : DigitSeq[i] = c) - 1

ToLower(c) ==
  IF c \in Upper THEN LowerSeq[CHOOSE i \in DOMAIN UpperSeq : UpperSeq[i] = c]
  ELSE c

LowerText(s) == [i \in DOMAIN s |-> ToLower(s[i])]

RECURSIVE LStrip(_)
LStrip(s) ==
  IF s # <<>> /\ Head(s) \in Whitespace THEN LStrip(Tail(s)) ELSE s

RECURSIVE RStrip(_)
RStrip(s) ==
  IF s # <<>> /\ s[Len(s)] \in Whitespace THEN RStrip(SubSeq(s, 1, Len(s) - 1))
  ELSE s

\* str.strip()
Strip(s) == RStrip(LStrip(s))

\* re.sub(r'[^a-zA-Z0-9]', '', s)
AlnumOnly(s) == SelectSeq(s, LAMBDA c : c \in Lower \cup Upper \cup Digits)

\* Index of the first occurrence of a character of cs in s, 0 when there is none.
Find(s, cs) ==
  IF \E i \in DOMAIN s : s[i] \in cs
  THEN CHOOSE i \in DOMAIN s : s[i] \in cs /\ \A j \in 1..(i - 1) : s[j] \notin cs
  ELSE 0

RECURSIVE Pow10(_)
Pow10(k) == IF k = 0 THEN 1 ELSE 10 * Pow10(k - 1)

\* digitpart ::= digit (["_"] digit)*
IsDigitPart(s) ==
  /\ s # <<>>
  /\ \A i \in DOMAIN s : s[i] \in Digits \cup {"_"}
  /\ s[1] \in Digits /\ s[Len(s)] \in Digits
  /\ \A i \in 1..(Len(s) - 1) : ~(s[i] = "_" /\ s[i + 1] = "_")

OnlyDigits(s) == SelectSeq(s, LAMBDA c : c \in Digits)

RECURSIVE DigitsValue(_)
DigitsValue(s) ==
  IF s = <<>> THEN 0
  ELSE 10 * DigitsValue(SubSeq(s, 1, Len(s) - 1)) + DigitVal(s[Len(s)])

AllDigits(s) == \A i \in DOMAIN s : s[i] \in Digits

(***************************************************************************)
(* float(): a float is [exc, cls, num, den]; cls is "fin" (num/den),       *)
(* "nan" or "inf" (sign in num).                                           *)
(***************************************************************************)
Fin(n, d) == [exc |-> "", cls |-> "fin", num |-> n, den |-> d]
NaN == [exc |-> "", cls |-> "nan", num |-> 0, den |-> 1]
Inf(sign) == [exc |-> "", cls |-> "inf", num |-> sign, den |-> 1]
FloatRaise(e) == [exc |-> e, cls |-> "fin", num |-> 0, den |-> 1]

\* float(str): the text of a Python float literal, surrounding whitespace allowed.
ParseFloat(text) ==
  LET t == Strip(text)
      signed == t # <<>> /\ t[1] \in {"+", "-"}
      sign == IF signed /\ t[1] = "-" THEN -1 ELSE 1
      b == IF signed THEN Tail(t) ELSE t
      lb == LowerText(b)
      ePos == Find(lb, {"e"})
      mant == IF ePos = 0 THEN b ELSE SubSeq(b, 1, ePos - 1)
      expo == IF ePos = 0 THEN <<>> ELSE SubSeq(b, ePos + 1, Len(b))
      eSigned == expo # <<>> /\ expo[1] \in {"+", "-"}
      eSign == IF eSigned /\ expo[1] = "-" THEN -1 ELSE 1
      eDigits == IF eSigned THEN Tail(expo) ELSE expo
      dot == Find(mant, {"."})
      ip == IF dot = 0 THEN mant ELSE SubSeq(mant, 1, dot - 1)
      fp == IF dot = 0 THEN <<>> ELSE SubSeq(mant, dot + 1, Len(mant))
      mantOk == /\ ip = <<>> \/ IsDigitPart(ip)
                /\ fp = <<>> \/ IsDigitPart(fp)
                /\ ip # <<>> \/ fp # <<>>
      expOk == ePos = 0 \/ IsDigitPart(eDigits)
      fd == OnlyDigits(fp)
      m == DigitsValue(OnlyDigits(ip) \o fd)
      k == eSign * DigitsValue(OnlyDigits(eDigits))
  IN  IF lb = <<"n", "a", "n">> THEN NaN
      ELSE IF lb \in {<<"i", "n", "f">>, <<"i", "n", "f", "i", "n", "i", "t", "y">>}
      THEN Inf(sign)
      ELSE IF ~(mantOk /\ expOk) THEN FloatRaise("ValueError")
      ELSE IF k >= 0 THEN Fin(sign * m * Pow10(k), Pow10(Len(fd)))
      ELSE Fin(sign * m, Pow10(Len(fd)) * Pow10(-k))

(***************************************************************************)
(* JSON values as request.get_json() returns them.  A scalar field value   *)
(* is [ty, s, n]: ty "str" with text s; ty "num" with the number n/100;    *)
(* ty "bool" with n in {0, 1}; ty "null", "list" or "obj".                 *)
(***************************************************************************)
JStr(s) == [ty |-> "str", s |-> s, n |-> 0]
JNum(cents) == [ty |-> "num", s |-> <<>>, n |-> cents]
JBool(b) == [ty |-> "bool", s |-> <<>>, n |-> b]
JNull == [ty |-> "null", s |-> <<>>, n |-> 0]
JList == [ty |-> "list", s |-> <<>>, n |-> 0]

\* float(v)
Float(v) ==
  CASE v.ty = "str" -> ParseFloat(v.s)
    [] v.ty = "num" -> Fin(v.n, 100)
    [] v.ty = "bool" -> Fin(v.n, 1)
    [] OTHER -> FloatRaise("TypeError")

\* x < 0 on floats
Negative(x) == x.cls # "nan" /\ x.num < 0

(***************************************************************************)
(* datetime.strptime for the two formats of the source.  A parse is        *)
(* [exc, day, minutes]; exc is "" or "ValueError".                         *)
(***************************************************************************)
Parsed(d, m) == [exc |-> "", day |-> d, minutes |-> m]
ParseRaise(e) == [exc |-> e, day |-> 0, minutes |-> 0]

IsLeap(y) == y % 4 = 0 /\ (y % 100 # 0 \/ y % 400 = 0)

DaysInMonth(y, m) ==
  IF m = 2 THEN (IF IsLeap(y) THEN 29 ELSE 28)
  ELSE IF m \in {4, 6, 9, 11} THEN 30 ELSE 31

\* %m: 1[0-2]|0[1-9]|[1-9]
MatchesMonth(s) ==
  \/ Len(s) = 2 /\ s[1] = "1" /\ s[2] \in {"0", "1", "2"}
  \/ Len(s) = 2 /\ s[1] = "0" /\ s[2] \in Digits \ {"0"}
  \/ Len(s) = 1 /\ s[1] \in Digits \ {"0"}

\* %d: 3[0-1]|[1-2]\d|0[1-9]|[1-9]| [1-9]
MatchesDay(s) ==
  \/ Len(s) = 2 /\ s[1] = "3" /\ s[2] \in {"0", "1"}
  \/ Len(s) = 2 /\ s[1] \in {"1", "2"} /\ s[2] \in Digits
  \/ Len(s) = 2 /\ s[1] \in {"0", " "} /\ s[2] \in Digits \ {"0"}
  \/ Len(s) = 1 /\ s[1] \in Digits \ {"0"}

\* %H: 2[0-3]|[0-1]\d|\d
MatchesHour(s) ==
  \/ Len(s) = 2 /\ s[1] = "2" /\ s[2] \in {"0", "1", "2", "3"}
  \/ Len(s) = 2 /\ s[1] \in {"0", "1"} /\ s[2] \in Digits
  \/ Len(s) = 1 /\ s[1] \in Digits

\* %M: [0-5]\d|\d
MatchesMinute(s) ==
  \/ Len(s) = 2 /\ s[1] \in {"0", "1", "2", "3", "4", "5"} /\ s[2] \in Digits
  \/ Len(s) = 1 /\ s[1] \in Digits

\* datetime.strptime(s, '%Y-%m-%d')
StrptimeDate(s) ==
  LET yy == SubSeq(s, 1, 4)
      rest == SubSeq(s, 6, Len(s))
      dash == Find(rest, {"-"})
      mm == SubSeq(rest, 1, dash - 1)
      dd == SubSeq(rest, dash + 1, Len(rest))
      shape == /\ Len(s) >= 5 /\ AllDigits(yy) /\ s[5] = "-"
               /\ dash > 0 /\ MatchesMonth(mm) /\ MatchesDay(dd)
      y == DigitsValue(yy)
      m == DigitsValue(mm)
      d == DigitsValue(OnlyDigits(dd))
  IN  IF shape /\ y >= 1 /\ d <= DaysInMonth(y, m) THEN Parsed(d, 0)
      ELSE ParseRaise("ValueError")

\* datetime.strptime(s, '%H:%M')
StrptimeTime(s) ==
  LET colon == Find(s, {":"})
      hh == SubSeq(s, 1, colon - 1)
      mi == SubSeq(s, colon + 1, Len(s))
  IN  IF colon > 0 /\ MatchesHour(hh) /\ MatchesMinute(mi)
      THEN Parsed(1, 60 * DigitsValue(hh) + DigitsValue(mi))
      ELSE ParseRaise("ValueError")

(***************************************************************************)
(* Item and the points engine                                              *)
(***************************************************************************)
\* Item.__init__: [exc, short_description, price]; a ValueError of float() or of
\* the sign test is raised again as ValueError("Invalid price ...").
ItemOf(short_description, f) ==
  [exc |-> IF f.exc # "" THEN f.exc
           ELSE IF Negative(f) THEN "ValueError"
           ELSE "",
   short_description |-> short_description, price |-> f]

Item(short_description, price) == ItemOf(short_description, Float(price))

Return(p) == [exc |-> "", points |-> p]
Raise(e) == [exc |-> e, points |-> 0]

\* math.floor and math.ceil raise on nan (ValueError) and on inf (OverflowError).
ToIntegerExc(x) ==
  IF x.cls = "nan" THEN "ValueError"
  ELSE IF x.cls = "inf" THEN "OverflowError"
  ELSE ""

\* math.floor(x) of a finite x
Floor(x) == x.num \div x.den

\* math.ceil(x) of a finite x
Ceil(x) == -((-x.num) \div x.den)

\* x * c/d
Times(x, c, d) == Fin(x.num * c, x.den * d)

\* math.fmod(x, m) == 0 for a finite x and an integer m
FmodIsZero(x, m) == x.num % (m * x.den) = 0

\* x >= n, where the source has x > n
GreaterOrEqual(x, n) == x.num >= n * x.den

\* x > n for a finite x and an integer n
GreaterThan(x, n) == x.num > n * x.den

\* Rule 5, the loop over the items from the first one on.
RECURSIVE Rule5(_, _)
Rule5(items, points) ==
  IF items = <<>> THEN Return(points)
  ELSE LET item == Head(items)
           desc == item.short_description
           trimmed_desc == Strip(desc.s)
       IN  IF desc.ty # "str" THEN Raise("AttributeError")
           ELSE IF Len(trimmed_desc) > 0 /\ Len(trimmed_desc) % 3 = 0
           THEN IF ToIntegerExc(item.price) # "" THEN Raise(ToIntegerExc(item.price))
                ELSE Rule5(Tail(items), points + Ceil(Times(item.price, 2, 10)))
           ELSE Rule5(Tail(items), points)

\* Rule 7: the points it adds, or the exception that leaves calculate_points.
OddDay(date) ==
  IF date.exc = "ValueError" THEN Return(0)
  ELSE IF date.day % 2 # 0 THEN Return(6)
  ELSE Return(0)

Rule7(purchase_date) ==
  IF purchase_date.ty # "str" THEN Raise("TypeError")
  ELSE OddDay(StrptimeDate(purchase_date.s))

\* Rule 8
Between(purchase_time_dt, start_time, end_time) ==
  IF purchase_time_dt.exc = "ValueError" THEN Return(0)
  ELSE IF /\ start_time.minutes < purchase_time_dt.minutes
          /\ purchase_time_dt.minutes < end_time.minutes
  THEN Return(10)
  ELSE Return(0)

Rule8(purchase_time) ==
  IF purchase_time.ty # "str" THEN Raise("TypeError")
  ELSE Between(StrptimeTime(purchase_time.s),
               StrptimeTime(<<"1", "4", ":", "0", "0">>),
               StrptimeTime(<<"1", "6", ":", "0", "0">>))

\* calculate_points: retailer is text, total a float, items a sequence of Item.
\* Rules 1 to 4: the points before the loop of rule 5.
Rules1To4(retailer, items, total) ==
  LET p1 == Len(AlnumOnly(retailer))
      p2 == p1 + (IF total.num = Floor(total) * total.den THEN 50 ELSE 0)
      p3 == p2 + (IF FmodIsZero(Times(total, 100, 1), 25) THEN 25 ELSE 0)
  IN  p3 + (Len(items) \div 2) * 5

\* The statements in their order: the first exception leaves the function.
InOrder(total, r5, r7, r8) ==
  IF ToIntegerExc(total) # "" THEN Raise(ToIntegerExc(total))
  ELSE IF r5.exc # "" THEN r5
  ELSE IF r7.exc # "" THEN r7
  ELSE IF r8.exc # "" THEN r8
  ELSE Return(r5.points + (IF GreaterThan(total, 10) THEN 5 ELSE 0)
              + r7.points + r8.points)

calculate_points(retailer, purchase_date, purchase_time, items, total) ==
  InOrder(total, Rule5(items, Rules1To4(retailer, items, total)),
          Rule7(purchase_date), Rule8(purchase_time))

(***************************************************************************)
(* The request body.  data is [ty, n, keys, retailer, purchaseDate,        *)
(* purchaseTime, items, total]: ty "obj" with the member names keys, or    *)
(* another JSON value, n telling whether it is truthy.  items is           *)
(* [ty, elems]; an element is [ty, keys, shortDescription, price].         *)
(***************************************************************************)
required_fields == {"retailer", "purchaseDate", "purchaseTime", "items", "total"}
item_fields == {"shortDescription", "price"}

\* not data
Falsy(data) == IF data.ty = "obj" THEN data.keys = {} ELSE data.n = 0

\* field in x: membership of a dict; TypeError on a number, a boolean or null.
\* The lists and strings of the model hold no member name.
InExc(x) == IF x.ty \in {"num", "bool", "null"} THEN "TypeError" ELSE ""
HasAll(x, fields) == x.ty = "obj" /\ fields \subseteq x.keys

\* uuid tells whether the handler reached uuid.uuid4().
Response(status, error) ==
  [status |-> status, error |-> error, uuid |-> FALSE, points |-> 0, retailer |-> <<>>,
   purchase_date |-> <<>>, purchase_time |-> <<>>, items |-> <<>>,
   total |-> Fin(0, 1)]

\* except ValueError as e: 400 with str(e); except Exception: 500.
Except(exc, message) ==
  IF exc = "ValueError" THEN Response(400, message)
  ELSE Response(500, "Internal server error")

\* The row of the INSERT: status 0 tells that the handler goes on to the store.
Row(data, items, total, points) ==
  [status |-> 0, error |-> "", uuid |-> TRUE, points |-> points,
   retailer |-> data.retailer.s,
   purchase_date |-> data.purchaseDate.s, purchase_time |-> data.purchaseTime.s,
   items |-> items, total |-> total]

\* The loop that parses the items, from the first one on: the Items built, or the
\* response of the first item that fails.
RECURSIVE ParseItems(_, _)
\* items.append(Item(...)), and on to the next element
AppendItem(elems, items, it) ==
  IF it.exc # "" THEN [resp |-> Except(it.exc, "Invalid price"), items |-> items]
  ELSE ParseItems(Tail(elems), Append(items, it))

ParseItems(elems, items) ==
  IF elems = <<>> THEN [resp |-> Response(0, ""), items |-> items]
  ELSE IF InExc(Head(elems)) # ""
  THEN [resp |-> Except(InExc(Head(elems)), ""), items |-> items]
  ELSE IF ~HasAll(Head(elems), item_fields)
  THEN [resp |-> Response(400, "Each item must have shortDescription and price"),
        items |-> items]
  ELSE AppendItem(elems, items,
                  Item(Head(elems).shortDescription, Head(elems).price))

\* process_receipt up to the store: the response of a rejected request, or the
\* row to insert.
\* Lines 90-91: uuid4, then calculate_points.
Scored(data, items, total, points) ==
  IF points.exc # ""
  THEN [Except(points.exc, "cannot convert float NaN to integer") EXCEPT !.uuid = TRUE]
  ELSE Row(data, items, total, points.points)

\* Lines 85-87: total = float(data['total']) and its sign.
WithTotal(data, items, total) ==
  IF total.exc # "" THEN Except(total.exc, "could not convert string to float")
  ELSE IF Negative(total) THEN Response(400, "Total cannot be negative")
  ELSE Scored(data, items, total,
              calculate_points(data.retailer.s, data.purchaseDate, data.purchaseTime,
                               items, total))

\* Lines 79-83: the items parsed.
WithItems(data, parsed) ==
  IF parsed.resp.status # 0 THEN parsed.resp
  ELSE WithTotal(data, parsed.items, Float(data.total))

Validate(data) ==
  IF Falsy(data) THEN Response(400, "Invalid JSON")
  ELSE IF InExc(data) # "" THEN Except(InExc(data), "")
  ELSE IF ~HasAll(data, required_fields) THEN Response(400, "Missing required fields")
  ELSE IF data.items.ty # "list" THEN Response(400, "Items must be a list")
  ELSE IF data.retailer.ty # "str" THEN Except("AttributeError", "")
  ELSE IF Strip(data.retailer.s) = <<>> THEN Response(400, "Retailer cannot be empty")
  ELSE WithItems(data, ParseItems(data.items.elems, <<>>))

(***************************************************************************)
(* The requests the service is sent                                        *)
(***************************************************************************)
Obj(keys, retailer, purchaseDate, purchaseTime, items, total) ==
  [ty |-> "obj", n |-> 1, keys |-> keys, retailer |-> retailer,
   purchaseDate |-> purchaseDate, purchaseTime |-> purchaseTime,
   items |-> items, total |-> total]

\* A body that is no object: null, a number, a boolean, a list, a string.
NonObj(ty, n) ==
  [ty |-> ty, n |-> n, keys |-> {}, retailer |-> JNull, purchaseDate |-> JNull,
   purchaseTime |-> JNull, items |-> [ty |-> "null", elems |-> <<>>],
   total |-> JNull]

ItemList(elems) == [ty |-> "list", elems |-> elems]
NotAList(ty) == [ty |-> ty, elems |-> <<>>]

ItemObj(keys, shortDescription, price) ==
  [ty |-> "obj", keys |-> keys, shortDescription |-> shortDescription,
   price |-> price]
NonObjItem(ty) ==
  [ty |-> ty, keys |-> {}, shortDescription |-> JNull, price |-> JNull]

Target == <<"T", "a", "r", "g", "e", "t">>
Date0101 == <<"2", "0", "2", "2", "-", "0", "1", "-", "0", "1">>
Date0102 == <<"2", "0", "2", "2", "-", "0", "1", "-", "0", "2">>
Date1340 == <<"2", "0", "2", "2", "-", "1", "3", "-", "4", "0">>
Time1301 == <<"1", "3", ":", "0", "1">>
Time1400 == <<"1", "4", ":", "0", "0">>
Time1401 == <<"1", "4", ":", "0", "1">>
Time1559 == <<"1", "5", ":", "5", "9">>
Time1600 == <<"1", "6", ":", "0", "0">>
Amt125 == <<"1", ".", "2", "5">>
Amt1000 == <<"1", "0", ".", "0", "0">>
Amt1001 == <<"1", "0", ".", "0", "1">>
Amt35 == <<"3", "5">>

Pepsi == ItemObj(item_fields, JStr(<<"P", "e", "p", "s", "i", " ", "-", " ", "1", "2", "-", "o", "z">>),
                 JStr(Amt125))
Dasani == ItemObj(item_fields, JStr(<<" ", "D", "a", "s", "a", "n", "i", " ">>), JStr(Amt1001))

\* The receipts sent to the running service.
ValidA == Obj(required_fields, JStr(Target), JStr(Date0101), JStr(Time1301),
              ItemList(<<Pepsi>>), JStr(Amt125))
ValidB == Obj(required_fields, JStr(<<"M", "&", "M">>), JStr(Date1340), JStr(Time1401),
              ItemList(<<Pepsi, Dasani>>), JStr(Amt35))
NoTotal == Obj(required_fields \ {"total"}, JStr(Target), JStr(Date0101), JStr(Time1301),
               ItemList(<<Pepsi>>), JNull)
SurrogateRetailer == Obj(required_fields, JStr(<<"a", Surrogate>>), JStr(Date0101),
                         JStr(Time1301), ItemList(<<Pepsi>>), JStr(Amt125))
NanTotal == Obj(required_fields, JStr(Target), JStr(Date0101), JStr(Time1301),
                ItemList(<<Pepsi>>), JStr(<<"n", "a", "n">>))

ServerPayloads == {ValidA, ValidB, NoTotal, SurrogateRetailer, NanTotal}

(***************************************************************************)
(* The running service                                                     *)
(***************************************************************************)
\* Request handlers that run at the same time: the gunicorn workers (one
\* request each), or the threads of the Flask development server.
NumWorkers == 2
\* Requests received in one run.
MaxRequests == 3

Workers == 1..NumWorkers
Ids == 1..MaxRequests

VARIABLES
  server,      \* "gunicorn" (workers are processes) or "flask" (ImportError: threads of one process)
  pc,          \* where each handler is
  req,         \* the locals of each handler
  db_lock,     \* db_lock of each process: the handler holding it, 0 when free
  writer,      \* the handler whose connection holds SQLite's write transaction, 0 when none
  receipts,    \* the rows of table receipts, by id
  generated,   \* number of uuid4() results drawn
  issued,      \* the 200 responses of process_receipt sent so far
  n_issued,    \* their number
  n_requests,  \* requests received so far
  payload,     \* the body given to the validator (SpecPure)
  outcome      \* what process_receipt made of payload before the store (SpecPure)

vars == <<server, pc, req, db_lock, writer, receipts, generated, issued, n_issued,
          n_requests,
          payload, outcome>>

None == -1

NoRequest ==
  [kind |-> "none", data |-> NonObj("null", 0), id |-> 0, row |-> Response(0, ""),
   exc |-> "", result |-> None, status |-> 0, error |-> "", points |-> None,
   attempted |-> FALSE, later |-> FALSE]

\* The process a handler runs in: gunicorn forks one process per worker, each
\* with its own copy of the module's globals; the development server runs the
\* handlers as threads of the one process.
Process(t) == IF server = "gunicorn" THEN t ELSE 1

\* An identifier generator that repeats itself.
RepeatedId == IF generated = 0 THEN 1 ELSE generated

\* uuid.uuid4(): a value never drawn before.
uuid4 == generated + 1

\* sqlite3 encodes text parameters as UTF-8: a lone surrogate raises
\* UnicodeEncodeError, a subclass of ValueError.
Encodable(row) ==
  \A text \in {row.retailer, row.purchase_date, row.purchase_time} :
    \A i \in DOMAIN text : text[i] # Surrogate

\* A store that loses the points column.
StoredWithoutPoints(row) ==
  [retailer |-> row.retailer, purchase_date |-> row.purchase_date,
   purchase_time |-> row.purchase_time, items |-> row.items, total |-> row.total,
   points |-> 0]

\* The columns of a stored row.
Stored(row) ==
  [retailer |-> row.retailer, purchase_date |-> row.purchase_date,
   purchase_time |-> row.purchase_time, items |-> row.items, total |-> row.total,
   points |-> row.points]

Init ==
  /\ server \in {"gunicorn", "flask"}
  /\ pc = [t \in Workers |-> "idle"]
  /\ req = [t \in Workers |-> NoRequest]
  /\ db_lock = [p \in Workers |-> 0]
  /\ writer = 0
  /\ receipts = <<>>
  /\ generated = 0
  /\ issued = {}
  /\ n_issued = 0
  /\ n_requests = 0
  /\ payload = NonObj("null", 0)
  /\ outcome = Response(0, "")

\* POST /receipts/process, lines 63-91: validation, uuid4, calculate_points.
\* The handler that takes the next request: the workers are interchangeable,
\* and the first idle one stands for any of them.
Accepts(t) == pc[t] = "idle" /\ \A u \in 1..(t - 1) : pc[u] # "idle"

\* Validate on the receipts sent to the service, computed once.
Validated == [data \in ServerPayloads |-> Validate(data)]

Received(t, data, v) ==
  /\ req' = [req EXCEPT ![t] =
               [NoRequest EXCEPT !.kind = "post", !.data = data, !.row = v,
                                 !.id = IF v.uuid THEN uuid4 ELSE 0,
                                 !.status = v.status, !.error = v.error]]
  /\ generated' = IF v.uuid THEN uuid4 ELSE generated
  /\ pc' = [pc EXCEPT ![t] = IF v.status = 0 THEN "lock" ELSE "respond"]

ProcessReceipt(t) ==
  /\ Accepts(t)
  /\ n_requests < MaxRequests
  /\ \E data \in ServerPayloads : Received(t, data, Validated[data])
  /\ n_requests' = n_requests + 1
  /\ UNCHANGED <<server, db_lock, writer, receipts, issued, n_issued, payload, outcome>>

\* GET /receipts/<id>/points arrives.
GetPoints(t) ==
  /\ Accepts(t)
  /\ n_requests < MaxRequests
  /\ \E id \in Ids :
       req' = [req EXCEPT ![t] =
                 [NoRequest EXCEPT !.kind = "get", !.id = id,
                                   !.later = \E r \in issued : r.id = id]]
  /\ pc' = [pc EXCEPT ![t] = "lock"]
  /\ n_requests' = n_requests + 1
  /\ UNCHANGED <<server, db_lock, writer, receipts, generated, issued, n_issued, payload, outcome>>

\* with db_lock, sqlite3.connect(DB_PATH) as conn: blocks until the lock of the
\* handler's process is free.
Acquire(t) ==
  /\ pc[t] = "lock"
  /\ db_lock[Process(t)] = 0
  /\ db_lock' = [db_lock EXCEPT ![Process(t)] = t]
  /\ pc' = [pc EXCEPT ![t] = IF req[t].kind = "post" THEN "insert" ELSE "select"]
  /\ UNCHANGED <<server, req, writer, receipts, generated, issued, n_issued, n_requests, payload,
                 outcome>>

\* conn.execute('INSERT ...'): binds the parameters, then opens the write
\* transaction, waiting while another connection holds it; the primary key
\* rejects an id already stored.
Insert(t) ==
  /\ pc[t] = "insert"
  /\ IF ~Encodable(req[t].row)
     THEN /\ req' = [req EXCEPT ![t].exc = "ValueError",
                                ![t].error = "'utf-8' codec can't encode character",
                                ![t].attempted = TRUE]
          /\ pc' = [pc EXCEPT ![t] = "exit"]
          /\ UNCHANGED writer
     ELSE /\ writer = 0
          /\ IF req[t].id \in DOMAIN receipts
             THEN /\ req' = [req EXCEPT ![t].exc = "IntegrityError",
                                        ![t].attempted = TRUE]
                  /\ pc' = [pc EXCEPT ![t] = "exit"]
                  /\ UNCHANGED writer
             ELSE /\ req' = [req EXCEPT ![t].attempted = TRUE]
                  /\ pc' = [pc EXCEPT ![t] = "commit"]
                  /\ writer' = t
  /\ UNCHANGED <<server, db_lock, receipts, generated, issued, n_issued, n_requests, payload,
                 outcome>>

\* conn.commit(): the row becomes visible to every connection.
Commit(t) ==
  /\ pc[t] = "commit"
  /\ receipts' = (req[t].id :> Stored(req[t].row)) @@ receipts
  /\ writer' = 0
  /\ pc' = [pc EXCEPT ![t] = "exit"]
  /\ UNCHANGED <<server, req, db_lock, generated, issued, n_issued, n_requests, payload, outcome>>

\* conn.execute('SELECT points ...') and cursor.fetchone()
Select(t) ==
  /\ pc[t] = "select"
  /\ req' = [req EXCEPT ![t].result =
               IF req[t].id \in DOMAIN receipts THEN receipts[req[t].id].points
               ELSE None]
  /\ pc' = [pc EXCEPT ![t] = "exit"]
  /\ UNCHANGED <<server, db_lock, writer, receipts, generated, issued, n_issued, n_requests,
                 payload, outcome>>

\* The response of process_receipt once the with block is left.
PostResponse(r) ==
  IF r.exc = "" THEN [r EXCEPT !.status = 200]
  ELSE IF r.exc = "ValueError" THEN [r EXCEPT !.status = 400]
  ELSE [r EXCEPT !.status = 500, !.error = "Internal server error"]

\* A lookup that answers an unknown id with zero points.
GetResponseZero(r) ==
  IF r.exc # "" THEN [r EXCEPT !.status = 500, !.error = "Internal server error"]
  ELSE IF r.result = None THEN [r EXCEPT !.status = 200, !.points = 0]
  ELSE [r EXCEPT !.status = 200, !.points = r.result]

\* The response of get_points once the with block is left.
GetResponse(r) ==
  IF r.exc # "" THEN [r EXCEPT !.status = 500, !.error = "Internal server error"]
  ELSE IF r.result = None THEN [r EXCEPT !.status = 404, !.error = "Receipt not found"]
  ELSE [r EXCEPT !.status = 200, !.points = r.result]

\* A lock that the return inside the with block of get_points leaves held.
ReleasesUnlessReturn(r) == ~(r.kind = "get" /\ r.exc = "" /\ r.result = None)

\* db_lock.__exit__: whether the handler leaving the with block frees the lock.
Releases(r) == TRUE

\* Leaving the with block, by its end, by the return inside it or by an
\* exception: the connection rolls back an open transaction, db_lock is
\* released, and the handler builds its response.
Exit(t) ==
  /\ pc[t] = "exit"
  /\ writer' = IF writer = t THEN 0 ELSE writer
  /\ db_lock' = IF Releases(req[t]) THEN [db_lock EXCEPT ![Process(t)] = 0] ELSE db_lock
  /\ req' = [req EXCEPT ![t] = IF req[t].kind = "post" THEN PostResponse(req[t])
                                ELSE GetResponse(req[t])]
  /\ pc' = [pc EXCEPT ![t] = "respond"]
  /\ UNCHANGED <<server, receipts, generated, issued, n_issued, n_requests, payload, outcome>>

\* The response is sent and the handler is free for the next request.
Respond(t) ==
  /\ pc[t] = "respond"
  /\ IF req[t].kind = "post" /\ req[t].status = 200
     THEN /\ issued' = issued \cup {[id |-> req[t].id, data |-> req[t].data,
                                      points |-> req[t].row.points]}
          /\ n_issued' = n_issued + 1
     ELSE UNCHANGED <<issued, n_issued>>
  /\ req' = [req EXCEPT ![t] = NoRequest]
  /\ pc' = [pc EXCEPT ![t] = "idle"]
  /\ UNCHANGED <<server, db_lock, writer, receipts, generated, n_requests, payload,
                 outcome>>

\* A store operation fails: sqlite3.connect, execute or commit raises
\* sqlite3.Error (the file cannot be opened, the database stays locked, the
\* disk is full).
StoreFault(t) ==
  /\ pc[t] \in {"insert", "commit", "select"}
  /\ req' = [req EXCEPT ![t].exc = "OperationalError",
                        ![t].attempted = (req[t].kind = "post")]
  /\ pc' = [pc EXCEPT ![t] = "exit"]
  /\ UNCHANGED <<server, db_lock, writer, receipts, generated, issued, n_issued, n_requests,
                 payload, outcome>>

Next ==
  \E t \in Workers :
    \/ ProcessReceipt(t)
    \/ GetPoints(t)
    \/ Acquire(t)
    \/ Insert(t)
    \/ Commit(t)
    \/ Select(t)
    \/ Exit(t)
    \/ Respond(t)

\* The service with a store whose operations succeed.
Spec == Init /\ [][Next]_vars

\* The service with a store whose operations may fail.
NextFault == Next \/ \E t \in Workers : StoreFault(t)

\* A step of a handler that waits for nothing.
Step(t) == Commit(t) \/ Select(t) \/ Exit(t) \/ Respond(t)

\* A step of a handler that waits, for db_lock or for SQLite's write transaction.
Wait(t) == Acquire(t) \/ Insert(t)

\* Every handler that can take a step takes one; a handler waiting for db_lock
\* or for SQLite's write transaction gets it when it is free again and again.
Fairness == \A t \in Workers : WF_vars(Step(t)) /\ SF_vars(Wait(t))

FairSpec == Init /\ [][NextFault]_vars /\ Fairness

(***************************************************************************)
(* process_receipt as a function of the request body                       *)
(***************************************************************************)
\* Items of one request body.
MaxItems == 2

SeqsUpTo(S, n) == UNION {[1..k -> S] : k \in 0..n}

Gum == ItemObj(item_fields, JStr(<<"G", "u", "m">>), JStr(Amt35))
BlankDesc == ItemObj(item_fields, JStr(<<" ", " ", " ">>), JStr(Amt125))
NumberPrice == ItemObj(item_fields, JStr(<<"a", "b", "c", "d", "e", "f">>), JNum(1001))
NanPrice == ItemObj(item_fields, JStr(<<"a", "b">>), JStr(<<"n", "a", "n">>))
NoPrice == ItemObj({"shortDescription"}, JStr(<<"G", "u", "m">>), JNull)
TextPrice == ItemObj(item_fields, JStr(<<"G", "u", "m">>), JStr(<<"a", "b", "c">>))
NegativePrice == ItemObj(item_fields, JStr(<<"G", "u", "m">>), JStr(<<"-", "1">>))
NullPrice == ItemObj(item_fields, JStr(<<"G", "u", "m">>), JNull)

\* Bodies with the defects the validator looks for, alone and together.
DefectPayloads ==
  {NonObj("null", 0), NonObj("num", 5), NonObj("list", 1),
   Obj({}, JNull, JNull, JNull, NotAList("null"), JNull)}
  \cup
  {Obj(keys, retailer, date, time, items, total) :
     keys \in {required_fields, required_fields \ {"total"}},
     retailer \in {JStr(Target), JStr(<<" ", " ">>), JNum(5), JStr(<<"a", Surrogate>>)},
     date \in {JStr(Date0101), JStr(Date1340), JNum(2022)},
     time \in {JStr(Time1401), JStr(<<"2", "5", ":", "0", "0">>), JNull},
     items \in {NotAList("str")} \cup
               {ItemList(elems) :
                  elems \in SeqsUpTo({Gum, NoPrice, TextPrice, NegativePrice, NullPrice,
                                      NonObjItem("num")}, MaxItems)},
     total \in {JStr(Amt125), JStr(<<"-", "1">>), JStr(<<"a", "b", "c">>), JNull,
                JStr(<<"n", "a", "n">>)}}

\* Receipts for the points engine.
ReceiptPayloads ==
  {Obj(required_fields, retailer, date, time, ItemList(elems), total) :
     retailer \in {JStr(Target), JStr(<<"M", "&", "M", " ", "7">>)},
     date \in {JStr(Date0101), JStr(Date0102), JStr(Date1340),
               JStr(<<"2", "0", "2", "4", "-", "2", "-", "2", "9">>)},
     time \in {JStr(Time1301), JStr(Time1400), JStr(Time1401), JStr(Time1559),
               JStr(Time1600)},
     elems \in SeqsUpTo({Pepsi, Dasani, Gum, BlankDesc, NumberPrice, NanPrice}, MaxItems),
     total \in {JStr(Amt125), JStr(Amt1000), JStr(Amt1001), JStr(Amt35), JNum(0),
                JStr(<<"9", ".", "9", "9">>)}}

InitPure ==
  /\ server = "flask"
  /\ pc = [t \in Workers |-> "idle"]
  /\ req = [t \in Workers |-> NoRequest]
  /\ db_lock = [p \in Workers |-> 0]
  /\ writer = 0
  /\ receipts = <<>>
  /\ generated = 0
  /\ issued = {}
  /\ n_issued = 0
  /\ n_requests = 0
  /\ payload \in DefectPayloads \cup ReceiptPayloads
  /\ outcome = Response(0, "")

\* The handler runs on the body up to the store.
Validation ==
  /\ n_requests = 0
  /\ outcome' = Validate(payload)
  /\ n_requests' = 1
  /\ UNCHANGED <<server, pc, req, db_lock, writer, receipts, generated, issued,
                 n_issued, payload>>

SpecPure == InitPure /\ [][Validation]_vars

(***************************************************************************)
(* The claims                                                              *)
(***************************************************************************)
\* The eight rules as the specification states them, on the request body.
Alnum == Upper \cup Lower \cup Digits

ClaimedRule1(data) ==
  Cardinality({i \in DOMAIN data.retailer.s : data.retailer.s[i] \in Alnum})

\* total has no cents
ClaimedRule2(total) == IF total.num % total.den = 0 THEN 50 ELSE 0

\* total is a multiple of 0.25
ClaimedRule3(total) == IF (4 * total.num) % total.den = 0 THEN 25 ELSE 0

ClaimedRule4(data) == 5 * (Len(data.items.elems) \div 2)

\* ceiling(price * 0.2) of an item whose trimmed description has a length > 0
\* that 3 divides; nothing for another item.
ClaimedItemPoints(desc, price) ==
  IF Len(Strip(desc)) > 0 /\ Len(Strip(desc)) % 3 = 0
  THEN (price.num + 5 * price.den - 1) \div (5 * price.den)
  ELSE 0

RECURSIVE ClaimedRule5(_)
ClaimedRule5(elems) ==
  IF elems = <<>> THEN 0
  ELSE ClaimedItemPoints(Head(elems).shortDescription.s, Float(Head(elems).price))
       + ClaimedRule5(Tail(elems))

\* total > 10.00
ClaimedRule6(total) == IF total.num > 10 * total.den THEN 5 ELSE 0

ClaimedOddDay(date) == IF date.exc = "" /\ date.day % 2 = 1 THEN 6 ELSE 0

ClaimedRule7(data) ==
  IF data.purchaseDate.ty = "str" THEN ClaimedOddDay(StrptimeDate(data.purchaseDate.s))
  ELSE 0

ClaimedAfternoon(time) ==
  IF time.exc = "" /\ time.minutes \in (14 * 60 + 1)..(16 * 60 - 1) THEN 10 ELSE 0

ClaimedRule8(data) ==
  IF data.purchaseTime.ty = "str" THEN ClaimedAfternoon(StrptimeTime(data.purchaseTime.s))
  ELSE 0

ClaimedPoints(data) ==
  ClaimedRule1(data) + ClaimedRule2(Float(data.total)) + ClaimedRule3(Float(data.total))
  + ClaimedRule4(data) + ClaimedRule5(data.items.elems)
  + ClaimedRule6(Float(data.total)) + ClaimedRule7(data) + ClaimedRule8(data)

\* The handler has run on the body and calculate_points has returned.
Scoring == n_requests = 1 /\ outcome.status = 0 /\ outcome.uuid

\* C1: for every receipt the validator lets through, the points that
\* calculate_points returns are the sum of the eight rule contributions, each
\* rule counted whether or not the others apply: 1 per alphanumeric character
\* of the retailer, 50 for a total without cents, 25 for a total that is a
\* multiple of 0.25, 5 per pair of items, ceiling(price * 0.2) per item whose
\* trimmed description has a positive length divisible by 3, 5 for a total
\* above 10.00 (none at 10.00), 6 for an odd day of a date that parses, 10 for
\* a time that parses strictly between 14:00 and 16:00.
C1_PointsAreRuleSum == Scoring => outcome.points = ClaimedPoints(payload)

\* A receipt to which all eight rules give points.
C1_Witness ==
  /\ Scoring
  /\ ClaimedRule1(payload) > 0
  /\ ClaimedRule2(Float(payload.total)) > 0
  /\ ClaimedRule3(Float(payload.total)) > 0
  /\ ClaimedRule4(payload) > 0
  /\ ClaimedRule5(payload.items.elems) > 0
  /\ ClaimedRule6(Float(payload.total)) > 0
  /\ ClaimedRule7(payload) > 0
  /\ ClaimedRule8(payload) > 0
  /\ outcome.points = ClaimedPoints(payload)

\* The handler has run on the body.
Validated1 == n_requests = 1

\* A JSON value that is a non-negative decimal number, as a number or as text.
NonNegativeDecimal(v) ==
  /\ v.ty \in {"str", "num"}
  /\ Float(v).exc = ""
  /\ Float(v).cls = "fin"
  /\ Float(v).num >= 0

\* The seven checks of the validator as the specification states them.
\* (a JSON array is a structured value as an object is; null and a number are not)
Check1(data) == data.ty \in {"obj", "list"}
Check2(data) == required_fields \subseteq data.keys
Check3(data) == data.items.ty = "list"
Check4(data) == data.retailer.ty = "str" /\ Strip(data.retailer.s) # <<>>
Check5(data) ==
  \A i \in DOMAIN data.items.elems :
    data.items.elems[i].ty = "obj" /\ item_fields \subseteq data.items.elems[i].keys
Check6(data) ==
  \A i \in DOMAIN data.items.elems : NonNegativeDecimal(data.items.elems[i].price)
Check7(data) == NonNegativeDecimal(data.total)

\* The failure the specification has the validator report: that of the first
\* check, in the stated order, that the body fails.
ClaimedFailure(data) ==
  IF ~Check1(data) THEN "MalformedInput"
  ELSE IF ~Check2(data) THEN "MissingField"
  ELSE IF ~Check3(data) THEN "InvalidType"
  ELSE IF ~Check4(data) THEN "EmptyField"
  ELSE IF ~Check5(data) THEN "MissingField"
  ELSE IF ~Check6(data) THEN "InvalidValue(price)"
  ELSE IF ~Check7(data) THEN "InvalidValue(total)"
  ELSE "none"

\* The failure a response reports, by its message.
ReportedFailure(resp) ==
  CASE resp.status = 0 -> "none"
    [] resp.status = 500 -> "InternalError"
    [] resp.error = "Invalid JSON" -> "MalformedInput"
    [] resp.error \in {"Missing required fields",
                       "Each item must have shortDescription and price"} -> "MissingField"
    [] resp.error = "Items must be a list" -> "InvalidType"
    [] resp.error = "Retailer cannot be empty" -> "EmptyField"
    [] resp.error = "Invalid price" -> "InvalidValue(price)"
    [] resp.error \in {"Total cannot be negative",
                       "could not convert string to float"} -> "InvalidValue(total)"
    [] OTHER -> "ValueError"

\* C5: the validator reports the failure of the first of its seven checks, in
\* the stated order, that the body fails: an object with no fields is reported
\* as MissingField, and a body with an item that lacks a field and another item
\* with a bad price is reported as MissingField.
C5_ReportsFirstFailingCheck ==
  Validated1 /\ ClaimedFailure(payload) # "none"
    => ReportedFailure(outcome) = ClaimedFailure(payload)

\* C6: every body that fails a check of the validator is answered 400, never
\* 500 and never 200.
C6_FailedCheckGets400 ==
  Validated1 /\ ClaimedFailure(payload) # "none" => outcome.status = 400

\* C7: a body that passes the seven checks is accepted whatever its
\* purchaseDate and purchaseTime are, and a date or time that does not parse
\* adds no points.
C7_DateAndTimeNeverRaise ==
  Validated1 /\ ClaimedFailure(payload) = "none"
    => outcome.status = 0 /\ outcome.points = ClaimedPoints(payload)

\* Where a handler is inside the with block of a store operation.
InCriticalSection(t) == pc[t] \in {"insert", "commit", "select", "exit"}

\* A handler about to send its response.
Responding(t, kind) == pc[t] = "respond" /\ req[t].kind = kind

\* C2: a submission answered 400 attempted no INSERT and stored no record.
C2_NoInsertBefore400 ==
  \A t \in Workers :
    Responding(t, "post") /\ req[t].status = 400
      => ~req[t].attempted /\ req[t].id \notin DOMAIN receipts

\* No stored record is updated or deleted by a step.
RecordsKept ==
  \A id \in DOMAIN receipts : id \in DOMAIN receipts' /\ receipts'[id] = receipts[id]

\* A submission answers 200 only with its record stored; the record of every
\* identifier handed out holds the points computed for it; a lookup of an
\* identifier handed out before the lookup arrived returns those points.
RoundTrip ==
  /\ \A t \in Workers :
       Responding(t, "post") /\ req[t].status = 200
         => /\ req[t].id \in DOMAIN receipts
            /\ receipts[req[t].id].points = req[t].row.points
  /\ \A r \in issued : r.id \in DOMAIN receipts /\ receipts[r.id].points = r.points
  /\ \A t \in Workers :
       Responding(t, "get") /\ req[t].later
         => /\ req[t].status = 200
            /\ \E r \in issued : r.id = req[t].id /\ req[t].points = r.points

\* C3: once a submission has returned 200 with an identifier, its record is in
\* the store, every later lookup of the identifier returns the points stored
\* with it, and no step updates or deletes a stored record.
C3_StoredOnceAndReadBack == []RoundTrip /\ [][RecordsKept]_vars

\* C3: a lookup answers 200 with the points of an identifier handed out
\* earlier, after another submission has been stored.
C3_Witness ==
  \E t \in Workers :
    /\ Responding(t, "get") /\ req[t].later /\ req[t].status = 200
    /\ req[t].points > 0
    /\ Cardinality(DOMAIN receipts) >= 2

\* A body the validator accepts and the store can encode.
Storable(data) == Validated[data].status = 0 /\ Encodable(Validated[data])

\* C4: every accepted submission gets an identifier of its own and a record of
\* its own, whether or not the same body was submitted before; two submissions
\* of the same body get the same points, and a lookup of either returns them.
C4_NoDeduplication ==
  /\ Cardinality({r.id : r \in issued}) = n_issued
  /\ \A r \in issued : r.id \in DOMAIN receipts /\ receipts[r.id].points = r.points
  /\ \A r1, r2 \in issued : r1.data = r2.data => r1.points = r2.points
  /\ \A t \in Workers :
       Responding(t, "post") /\ Storable(req[t].data)
         => /\ req[t].status = 200
            /\ \A r \in issued : r.id # req[t].id
  /\ \A t \in Workers :
       Responding(t, "get") /\ req[t].status = 200
         => \A r \in issued : r.id = req[t].id => req[t].points = r.points

\* C4: the same body was accepted twice under two identifiers with two
\* records, and a lookup of one of them answers with its points.
C4_Witness ==
  \E r1, r2 \in issued :
    /\ r1.data = r2.data /\ r1.id # r2.id
    /\ {r1.id, r2.id} \subseteq DOMAIN receipts
    /\ \E t \in Workers :
         Responding(t, "get") /\ req[t].id = r2.id /\ req[t].points = r1.points

\* A lookup of an identifier with no record answers 404 'Receipt not found'
\* and no points.
UnknownIsNotFound ==
  \A t \in Workers :
    Responding(t, "get") /\ req[t].id \notin DOMAIN receipts
      => /\ req[t].status = 404
         /\ req[t].error = "Receipt not found"
         /\ req[t].points = None

\* A step of a lookup leaves the store as it is.
LookupReadsOnly ==
  \A t \in Workers : req[t].kind = "get" /\ pc'[t] # pc[t] => receipts' = receipts

\* C8: a lookup of an identifier that has no record fails with 404 'Receipt
\* not found', never with another error and never with points, whatever the
\* store holds and whatever submissions run beside it, and changes no record.
C8_UnknownIdIsNotFound == []UnknownIsNotFound /\ [][LookupReadsOnly]_vars

\* C8: a lookup answers 404 while the store holds a record and another
\* handler is inserting one.
C8_Witness ==
  \E t, u \in Workers :
    /\ Responding(t, "get") /\ req[t].status = 404
    /\ receipts # <<>>
    /\ req[u].kind = "post" /\ pc[u] \in {"insert", "commit"}

\* C9: at most one store operation is inside its critical section at a time.
C9_OneStoreOperationAtATime ==
  Cardinality({t \in Workers : InCriticalSection(t)}) <= 1

\* db_lock is held only by a handler of its process that is inside the with
\* block.
LockHeldInside ==
  \A p \in Workers :
    db_lock[p] # 0 => InCriticalSection(db_lock[p]) /\ Process(db_lock[p]) = p

\* C10: the lock is released on every way out of the with block, so it is
\* never held by a handler that has responded, and every handler that waits
\* for the lock gets it and responds.
C10_LockReleasedOnEveryPath ==
  /\ []LockHeldInside
  /\ \A t \in Workers : (pc[t] = "lock") ~> (pc[t] = "respond")

\* C10: a handler whose store operation failed is responding, and another
\* handler of its process has taken the lock since.
C10_Witness ==
  \E t, u \in Workers :
    /\ t # u
    /\ pc[t] = "respond" /\ req[t].exc = "OperationalError"
    /\ db_lock[Process(t)] = u

=============================================================================
